---- MODULE Spec2Model ----
\* KIJ volleyball tournament: the FastAPI backend (src/backend/main.py), its
\* persistence layer (src/backend/database.py) and the team registration form
\* of the Streamlit front end (src/kij.py), which writes to the same database.
EXTENDS Integers, Sequences, FiniteSets, TLC

\* ---------------------------------------------------------------- constants
MAX_TEAMS == 15
SETS_PER_GAME == 2

\* ------------------------------------------------------------------- bounds
MaxClock == 1
TicksPerSec == 2
MaxScore == 2
SoloScore == 1
MaxGames == 2
MaxInFlight == 2
PubMod == 3

\* ------------------------------------------------------------------- inputs
Names == {"a", "A"}
PairInputs == {<<"a", "A">>, <<"a", "a">>}
TeamInputs == {<<"", "", "A">>, <<"p", "q", "D">>, <<"", "", "AB">>}
PlainTeam == {<<"", "", "A">>}
ScoreInputs ==
    {<<"set1", "team1", 1>>, <<"set1", "team1", -1>>, <<"set1", "team1", 2>>,
     <<"set2", "team2", 1>>, <<"set2", "team2", -1>>,
     <<"set3", "team1", 1>>, <<"set1", "ref", 1>>}
Sockets == {"w1", "w2"}
Sessions == {"s1", "s2"}
WriteOutcomes == {TRUE}

Null == "<null>"
NoTime == -1
NoRead == [busy |-> FALSE]

VARIABLES
    teams,      \* table teams: team_name -> [player1, player2, pool]
    games,      \* tables games and game_sets, joined: game_key -> game
    clock,      \* datetime.now(), in ticks
    active,     \* ConnectionManager.active
    inbox,      \* per connection, the last message sent to it
    tasks,      \* handlers suspended inside a send_json
    resp,       \* the response of the handler that returned last
    npub,       \* number of calls of manager.broadcast, modulo PubMod
    cache,      \* per Streamlit session, st.session_state
    reading     \* the get_standings call that has loaded the teams only

vars == <<teams, games, clock, active, inbox, tasks, resp, npub, cache, reading>>

\* ------------------------------------------------------------------ helpers
Range(s) == {s[i] : i \in 1..Len(s)}

Max(a, b) == IF a >= b THEN a ELSE b

RECURSIVE RemoveFirst(_, _)
RemoveFirst(s, x) ==
    IF s = <<>> THEN <<>>
    ELSE IF Head(s) = x THEN Tail(s)
    ELSE <<Head(s)>> \o RemoveFirst(Tail(s), x)

RemoveAt(s, i) == SubSeq(s, 1, i - 1) \o SubSeq(s, i + 1, Len(s))

\* ------------------------------------------------------------- persistence
\* strftime('%Y%m%d_%H%M%S'): the clock truncated to whole seconds.
Stamp(t) == ToString(t \div TicksPerSec)

GameKey(team1, team2, t) == team1 \o "_vs_" \o team2 \o "_" \o Stamp(t)

ZeroSets ==
    [set1 |-> [team1_score |-> 0, team2_score |-> 0],
     set2 |-> [team1_score |-> 0, team2_score |-> 0]]

NewGame(team1, team2, t) ==
    [team1 |-> team1, team2 |-> team2, sets |-> ZeroSets,
     completed |-> FALSE, winner |-> Null, start_time |-> t, end_time |-> NoTime]

save_game_replace_row(gs, key, data, ok) ==
    IF ~ok THEN gs
    ELSE IF key \in DOMAIN gs
         THEN [gs EXCEPT ![key] = data]
         ELSE (key :> data) @@ gs

save_game_without_sets(gs, key, data, ok) ==
    IF ~ok THEN gs
    ELSE IF key \in DOMAIN gs
         THEN [gs EXCEPT ![key] = [@ EXCEPT !.completed = data.completed,
                                             !.winner = data.winner,
                                             !.end_time = data.end_time]]
         ELSE (key :> data) @@ gs

\* INSERT ... ON CONFLICT (game_key) DO UPDATE SET completed, winner, end_time;
\* then the upsert of both set rows. A failed write rolls back.
save_game(gs, key, data, ok) ==
    IF ~ok THEN gs
    ELSE IF key \in DOMAIN gs
         THEN [gs EXCEPT ![key] = [@ EXCEPT !.completed = data.completed,
                                             !.winner = data.winner,
                                             !.end_time = data.end_time,
                                             !.sets = data.sets]]
         ELSE (key :> data) @@ gs

\* INSERT INTO teams: the UNIQUE constraint on team_name rejects a second row
\* (UniqueViolation, reported as False); pool is VARCHAR(1), a longer value
\* makes the INSERT raise.
save_team_ok(ts, name) == name \notin DOMAIN ts

save_team(ts, name, player1, player2, pool) ==
    IF save_team_ok(ts, name)
    THEN (name :> [player1 |-> player1, player2 |-> player2, pool |-> pool]) @@ ts
    ELSE ts

delete_team(ts, name) == [n \in DOMAIN ts \ {name} |-> ts[n]]

EmptyMap == [n \in {} |-> 0]

delete_all_data_keep_teams(ts, gs, ok) == [teams |-> ts, games |-> EmptyMap]

\* DELETE FROM game_sets, games, teams in one transaction.
delete_all_data(ts, gs, ok) ==
    IF ok THEN [teams |-> EmptyMap, games |-> EmptyMap] ELSE [teams |-> ts, games |-> gs]

load_all_teams == teams

load_all_games == games

\* ------------------------------------------------------------ broadcast hub
disconnect_keep(act, ws) == act

disconnect(act, ws) == IF ws \in Range(act) THEN RemoveFirst(act, ws) ELSE act

RECURSIVE DropDead(_, _)
DropDead(act, dead) ==
    IF dead = <<>> THEN act ELSE DropDead(disconnect(act, Head(dead)), Tail(dead))

\* manager.broadcast(msg) up to its first suspension: with no subscriber the
\* loop body never runs and the handler returns at once; otherwise the call
\* is suspended in send_json to the first subscriber. The field to records
\* the subscribers at the call and got the sockets whose send_json has returned.
Publish(msg, ret) ==
    /\ npub' = (npub + 1) % PubMod
    /\ IF active = <<>>
       THEN /\ tasks' = tasks
            /\ resp' = ret
       ELSE /\ tasks' = Append(tasks, [msg |-> msg, idx |-> 2, cur |-> active[1],
                                       dead |-> <<>>, to |-> Range(active),
                                       got |-> {}, ret |-> ret])
            /\ resp' = resp

Reject(ret) ==
    /\ resp' = ret
    /\ UNCHANGED <<teams, games, clock, active, inbox, tasks, npub, cache, reading>>

Response(op, status, detail) == [op |-> op, status |-> status, detail |-> detail]

\* st.session_state of a Streamlit session before its first run: nothing
\* loaded, no current_game_key, nothing chosen in the two select boxes.
NewSession ==
    [loaded |-> FALSE, teams |-> EmptyMap, games |-> EmptyMap,
     current_game_key |-> Null, team1 |-> Null, team2 |-> Null]

\* --------------------------------------------------------------------- Init
Init ==
    /\ teams = EmptyMap
    /\ games = EmptyMap
    /\ clock = 0
    /\ active = <<>>
    /\ inbox = [w \in Sockets |-> [type |-> "none"]]
    /\ tasks = <<>>
    /\ resp = Response("startup", 200, "")
    /\ npub = 0
    /\ cache = [s \in Sessions |-> NewSession]
    /\ reading = NoRead

\* ------------------------------------------------------------------ actions
Tick ==
    /\ clock < MaxClock
    /\ clock' = clock + 1
    /\ UNCHANGED <<teams, games, active, inbox, tasks, resp, npub, cache, reading>>

create_game_publish_first(team1, team2, ok) ==
    LET key == GameKey(team1, team2, clock)
        data == NewGame(team1, team2, clock)
        saved == save_game(games, key, data, ok)
    IN /\ Len(tasks) < MaxInFlight
       /\ Cardinality(DOMAIN saved) <= MaxGames
       /\ games' = saved
       /\ Publish([type |-> "games_updated", games |-> games],
                  [op |-> "createGame", status |-> 200, detail |-> "",
                   game_key |-> key, game |-> data])
       /\ UNCHANGED <<teams, clock, active, inbox, cache, reading>>

create_game(team1, team2, ok) ==
    LET key == GameKey(team1, team2, clock)
        data == NewGame(team1, team2, clock)
        saved == save_game(games, key, data, ok)
    IN /\ Len(tasks) < MaxInFlight
       /\ Cardinality(DOMAIN saved) <= MaxGames
       /\ games' = saved
       /\ Publish([type |-> "games_updated", games |-> saved],
                  [op |-> "createGame", status |-> 200, detail |-> "",
                   game_key |-> key, game |-> data])
       /\ UNCHANGED <<teams, clock, active, inbox, cache, reading>>

SetName(sn) == "set" \o ToString(sn)

ScoreField(side) == side \o "_score"

PointsOf(game, field) ==
    game.sets.set1[field] + game.sets.set2[field]

decide_winner_points(game) ==
    IF PointsOf(game, "team1_score") > PointsOf(game, "team2_score") THEN game.team1
    ELSE IF PointsOf(game, "team2_score") > PointsOf(game, "team1_score") THEN game.team2
    ELSE "Split"

SetsWon(game, mine, theirs) ==
    Cardinality({sn \in 1..SETS_PER_GAME :
                    game.sets[SetName(sn)][mine] > game.sets[SetName(sn)][theirs]})

decide_winner_or_none(game) ==
    LET t1_sets == SetsWon(game, "team1_score", "team2_score")
        t2_sets == SetsWon(game, "team2_score", "team1_score")
    IN IF t1_sets > t2_sets THEN game.team1
       ELSE IF t2_sets > t1_sets THEN game.team2
       ELSE Null

\* complete_game: tally the sets, then pick the winner.
decide_winner(game) ==
    LET t1_sets == SetsWon(game, "team1_score", "team2_score")
        t2_sets == SetsWon(game, "team2_score", "team1_score")
    IN IF t1_sets > t2_sets THEN game.team1
       ELSE IF t2_sets > t1_sets THEN game.team2
       ELSE "Split"

new_score_unclamped(current, delta) == current + delta

new_score(current, delta) == Max(0, current + delta)

update_score_unchecked(key, sk, side, delta, ok) ==
    IF key \notin DOMAIN games
    THEN Reject(Response("adjustScore", 404, "Game not found"))
    ELSE IF sk \notin DOMAIN games[key].sets
            \/ ScoreField(side) \notin DOMAIN games[key].sets[sk]
    THEN Reject(Response("adjustScore", 500, "KeyError"))
    ELSE LET game == games[key]
             current == game.sets[sk][ScoreField(side)]
             new_val == new_score(current, delta)
             game2 == [game EXCEPT !.sets[sk][ScoreField(side)] = new_val]
             saved == save_game(games, key, game2, ok)
         IN /\ Len(tasks) < MaxInFlight
            /\ new_val <= MaxScore
            /\ games' = saved
            /\ Publish([type |-> "score_updated", game_key |-> key, games |-> saved],
                       [op |-> "adjustScore", status |-> 200, detail |-> "",
                        game |-> saved[key]])
            /\ UNCHANGED <<teams, clock, active, inbox, cache, reading>>

update_score_whole_set(key, sk, side, delta, ok) ==
    IF key \notin DOMAIN games
    THEN Reject(Response("adjustScore", 404, "Game not found"))
    ELSE IF games[key].completed
    THEN Reject(Response("adjustScore", 400, "Game already completed"))
    ELSE IF sk \notin DOMAIN games[key].sets
            \/ ScoreField(side) \notin DOMAIN games[key].sets[sk]
    THEN Reject(Response("adjustScore", 500, "KeyError"))
    ELSE LET game == games[key]
             current == game.sets[sk][ScoreField(side)]
             new_val == new_score(current, delta)
             game2 == [game EXCEPT !.sets[sk] = [team1_score |-> new_val,
                                                 team2_score |-> new_val]]
             saved == save_game(games, key, game2, ok)
         IN /\ Len(tasks) < MaxInFlight
            /\ new_val <= MaxScore
            /\ games' = saved
            /\ Publish([type |-> "score_updated", game_key |-> key, games |-> saved],
                       [op |-> "adjustScore", status |-> 200, detail |-> "",
                        game |-> saved[key]])
            /\ UNCHANGED <<teams, clock, active, inbox, cache, reading>>

update_score_stale_snapshot(key, sk, side, delta, ok) ==
    IF key \notin DOMAIN games
    THEN Reject(Response("adjustScore", 404, "Game not found"))
    ELSE IF games[key].completed
    THEN Reject(Response("adjustScore", 400, "Game already completed"))
    ELSE IF sk \notin DOMAIN games[key].sets
            \/ ScoreField(side) \notin DOMAIN games[key].sets[sk]
    THEN Reject(Response("adjustScore", 500, "KeyError"))
    ELSE LET game == games[key]
             current == game.sets[sk][ScoreField(side)]
             new_val == new_score(current, delta)
             game2 == [game EXCEPT !.sets[sk][ScoreField(side)] = new_val]
             saved == save_game(games, key, game2, ok)
         IN /\ Len(tasks) < MaxInFlight
            /\ new_val <= MaxScore
            /\ games' = saved
            /\ Publish([type |-> "score_updated", game_key |-> key, games |-> games],
                       [op |-> "adjustScore", status |-> 200, detail |-> "",
                        game |-> games[key]])
            /\ UNCHANGED <<teams, clock, active, inbox, cache, reading>>

update_score(key, sk, side, delta, ok) ==
    IF key \notin DOMAIN games
    THEN Reject(Response("adjustScore", 404, "Game not found"))
    ELSE IF games[key].completed
    THEN Reject(Response("adjustScore", 400, "Game already completed"))
    ELSE IF sk \notin DOMAIN games[key].sets
            \/ ScoreField(side) \notin DOMAIN games[key].sets[sk]
    THEN Reject(Response("adjustScore", 500, "KeyError"))
    ELSE LET game == games[key]
             current == game.sets[sk][ScoreField(side)]
             new_val == new_score(current, delta)
             game2 == [game EXCEPT !.sets[sk][ScoreField(side)] = new_val]
             saved == save_game(games, key, game2, ok)
         IN /\ Len(tasks) < MaxInFlight
            /\ new_val <= MaxScore
            /\ games' = saved
            /\ Publish([type |-> "score_updated", game_key |-> key, games |-> saved],
                       [op |-> "adjustScore", status |-> 200, detail |-> "",
                        game |-> saved[key]])
            /\ UNCHANGED <<teams, clock, active, inbox, cache, reading>>

complete_game_upsert(key, ok) ==
    LET game == IF key \in DOMAIN games THEN games[key] ELSE NewGame("", "", clock)
        game2 == [game EXCEPT !.winner = decide_winner(game),
                              !.completed = TRUE,
                              !.end_time = clock]
        saved == IF key \in DOMAIN games THEN save_game(games, key, game2, ok)
                 ELSE (key :> game2) @@ games
    IN /\ Len(tasks) < MaxInFlight
       /\ games' = saved
       /\ Publish([type |-> "game_completed", games |-> saved],
                  [op |-> "completeGame", status |-> 200, detail |-> "",
                   winner |-> game2.winner])
       /\ UNCHANGED <<teams, clock, active, inbox, cache, reading>>

complete_game_once(key, ok) ==
    IF key \notin DOMAIN games
    THEN Reject(Response("completeGame", 404, "Game not found"))
    ELSE IF games[key].completed
    THEN Reject(Response("completeGame", 400, "Game already completed"))
    ELSE LET game == games[key]
             game2 == [game EXCEPT !.winner = decide_winner(game),
                                   !.completed = TRUE,
                                   !.end_time = clock]
             saved == save_game(games, key, game2, ok)
         IN /\ Len(tasks) < MaxInFlight
            /\ games' = saved
            /\ Publish([type |-> "game_completed", games |-> saved],
                       [op |-> "completeGame", status |-> 200, detail |-> "",
                        winner |-> game2.winner])
            /\ UNCHANGED <<teams, clock, active, inbox, cache, reading>>

complete_game(key, ok) ==
    IF key \notin DOMAIN games
    THEN Reject(Response("completeGame", 404, "Game not found"))
    ELSE LET game == games[key]
             game2 == [game EXCEPT !.winner = decide_winner(game),
                                   !.completed = TRUE,
                                   !.end_time = clock]
             saved == save_game(games, key, game2, ok)
         IN /\ Len(tasks) < MaxInFlight
            /\ games' = saved
            /\ Publish([type |-> "game_completed", games |-> saved],
                       [op |-> "completeGame", status |-> 200, detail |-> "",
                        winner |-> game2.winner])
            /\ UNCHANGED <<teams, clock, active, inbox, cache, reading>>

Lower(name) == IF name = "A" THEN "a" ELSE name

create_team_ci(name, player1, player2, pool, ok) ==
    IF Cardinality(DOMAIN teams) >= MAX_TEAMS
    THEN Reject(Response("registerTeam", 400, "Maximum 15 teams allowed"))
    ELSE IF Lower(name) \in {Lower(n) : n \in DOMAIN teams}
    THEN Reject(Response("registerTeam", 400, "Team name already exists"))
    ELSE IF ~ok \/ Len(pool) > 1
    THEN Reject(Response("registerTeam", 500, "Internal Server Error"))
    ELSE IF ~save_team_ok(teams, name)
    THEN Reject(Response("registerTeam", 500, "Failed to save team"))
    ELSE LET saved == save_team(teams, name, player1, player2, pool)
         IN /\ Len(tasks) < MaxInFlight
            /\ teams' = saved
            /\ Publish([type |-> "teams_updated", teams |-> saved],
                       [op |-> "registerTeam", status |-> 200, detail |-> "",
                        team_name |-> name])
            /\ UNCHANGED <<games, clock, active, inbox, cache, reading>>

create_team(name, player1, player2, pool, ok) ==
    IF Cardinality(DOMAIN teams) >= MAX_TEAMS
    THEN Reject(Response("registerTeam", 400, "Maximum 15 teams allowed"))
    ELSE IF name \in DOMAIN teams
    THEN Reject(Response("registerTeam", 400, "Team name already exists"))
    ELSE IF ~ok \/ Len(pool) > 1
    THEN Reject(Response("registerTeam", 500, "Internal Server Error"))
    ELSE IF ~save_team_ok(teams, name)
    THEN Reject(Response("registerTeam", 500, "Failed to save team"))
    ELSE LET saved == save_team(teams, name, player1, player2, pool)
         IN /\ Len(tasks) < MaxInFlight
            /\ teams' = saved
            /\ Publish([type |-> "teams_updated", teams |-> saved],
                       [op |-> "registerTeam", status |-> 200, detail |-> "",
                        team_name |-> name])
            /\ UNCHANGED <<games, clock, active, inbox, cache, reading>>

remove_team(name) ==
    IF name \notin DOMAIN teams
    THEN Reject(Response("removeTeam", 404, "Team not found"))
    ELSE LET saved == delete_team(teams, name)
         IN /\ Len(tasks) < MaxInFlight
            /\ teams' = saved
            /\ Publish([type |-> "teams_updated", teams |-> saved],
                       Response("removeTeam", 200, ""))
            /\ UNCHANGED <<games, clock, active, inbox, cache, reading>>

\* delete_all_data: one transaction deleting game_sets, games and teams.
reset_tournament(ok) ==
    IF ~ok
    THEN Reject(Response("resetAll", 500, "Reset failed"))
    ELSE /\ Len(tasks) < MaxInFlight
         /\ teams' = delete_all_data(teams, games, ok).teams
         /\ games' = delete_all_data(teams, games, ok).games
         /\ Publish([type |-> "tournament_reset"], Response("resetAll", 200, ""))
         /\ UNCHANGED <<clock, active, inbox, cache, reading>>

\* hashlib.sha256(password.encode()).hexdigest()
sha256(text) == "sha256:" \o text

ADMIN_USERNAME == "admin"
ADMIN_PASSWORD_HASH == sha256("volleyball123")

verify(password) == sha256(password) = ADMIN_PASSWORD_HASH

\* POST /api/auth/login: the answer is all there is, no token or session is made.
login(username, password) ==
    IF username = ADMIN_USERNAME /\ verify(password)
    THEN Reject(Response("login", 200, "Authenticated"))
    ELSE Reject(Response("login", 401, "Invalid credentials"))

get_teams ==
    Reject([op |-> "listTeams", status |-> 200, detail |-> "", body |-> load_all_teams])

get_games ==
    Reject([op |-> "listGames", status |-> 200, detail |-> "", body |-> load_all_games])

\* ---------------------------------------------------------------- standings
\* ORDER BY team_name of load_all_teams, for the names standings are computed
\* of: the order in which calculate_standings meets the teams.
NameOrder == <<"a", "b", "c", "d">>

TeamsInOrder(ts) == SelectSeq(NameOrder, LAMBDA n : n \in DOMAIN ts)

ZeroEntry(ts, n) ==
    [team |-> n, pool |-> ts[n].pool, games_played |-> 0,
     set_wins |-> 0, set_losses |-> 0,
     points_for |-> 0, points_against |-> 0, point_differential |-> 0]

tally_set_ties_win(st, t1, t2, s1, s2) ==
    LET a == [st EXCEPT ![t1].points_for = @ + s1]
        b == [a EXCEPT ![t1].points_against = @ + s2]
        c == [b EXCEPT ![t2].points_for = @ + s2]
        d == [c EXCEPT ![t2].points_against = @ + s1]
    IN IF s1 >= s2
       THEN [[d EXCEPT ![t1].set_wins = @ + 1] EXCEPT ![t2].set_losses = @ + 1]
       ELSE [[d EXCEPT ![t2].set_wins = @ + 1] EXCEPT ![t1].set_losses = @ + 1]

tally_set_wins_only(st, t1, t2, s1, s2) ==
    LET a == [st EXCEPT ![t1].points_for = @ + s1]
        b == [a EXCEPT ![t1].points_against = @ + s2]
        c == [b EXCEPT ![t2].points_for = @ + s2]
        d == [c EXCEPT ![t2].points_against = @ + s1]
    IN IF s1 > s2
       THEN [d EXCEPT ![t1].set_wins = @ + 1]
       ELSE IF s2 > s1
       THEN [d EXCEPT ![t2].set_wins = @ + 1]
       ELSE d

\* One pass of the loop over the sets: four += and the strict comparison.
tally_set(st, t1, t2, s1, s2) ==
    LET a == [st EXCEPT ![t1].points_for = @ + s1]
        b == [a EXCEPT ![t1].points_against = @ + s2]
        c == [b EXCEPT ![t2].points_for = @ + s2]
        d == [c EXCEPT ![t2].points_against = @ + s1]
    IN IF s1 > s2
       THEN [[d EXCEPT ![t1].set_wins = @ + 1] EXCEPT ![t2].set_losses = @ + 1]
       ELSE IF s2 > s1
       THEN [[d EXCEPT ![t2].set_wins = @ + 1] EXCEPT ![t1].set_losses = @ + 1]
       ELSE d

RECURSIVE tally_sets(_, _, _)
tally_sets(st, gd, sn) ==
    IF sn > SETS_PER_GAME THEN st
    ELSE tally_sets(tally_set(st, gd.team1, gd.team2,
                              gd.sets[SetName(sn)].team1_score,
                              gd.sets[SetName(sn)].team2_score),
                    gd, sn + 1)

tally_game_uncompleted(st, gd) ==
    IF gd.team1 \notin DOMAIN st \/ gd.team2 \notin DOMAIN st THEN st
    ELSE LET t1 == gd.team1
             t2 == gd.team2
             p == [[st EXCEPT ![t1].games_played = @ + 1]
                       EXCEPT ![t2].games_played = @ + 1]
             q == tally_sets(p, gd, 1)
             r == [q EXCEPT ![t1].point_differential =
                                q[t1].points_for - q[t1].points_against]
         IN [r EXCEPT ![t2].point_differential =
                         r[t2].points_for - r[t2].points_against]

\* One pass of the loop over the games.
tally_game(st, gd) ==
    IF ~gd.completed THEN st
    ELSE IF gd.team1 \notin DOMAIN st \/ gd.team2 \notin DOMAIN st THEN st
    ELSE LET t1 == gd.team1
             t2 == gd.team2
             p == [[st EXCEPT ![t1].games_played = @ + 1]
                       EXCEPT ![t2].games_played = @ + 1]
             q == tally_sets(p, gd, 1)
             r == [q EXCEPT ![t1].point_differential =
                                q[t1].points_for - q[t1].points_against]
         IN [r EXCEPT ![t2].point_differential =
                         r[t2].points_for - r[t2].points_against]

RECURSIVE tally_games(_, _, _)
tally_games(st, gs, keys) ==
    IF keys = {} THEN st
    ELSE LET k == CHOOSE x \in keys : TRUE
         IN tally_games(tally_game(st, gs[k]), gs, keys \ {k})

ranks_above_by_points(x, y) == x.point_differential > y.point_differential

\* key=(set_wins, point_differential), reverse=True.
ranks_above(x, y) ==
    \/ x.set_wins > y.set_wins
    \/ x.set_wins = y.set_wins /\ x.point_differential > y.point_differential

\* sorted() is stable: an entry goes behind the entries it does not rank above.
RECURSIVE insert_sorted(_, _)
insert_sorted(sq, x) ==
    IF sq = <<>> THEN <<x>>
    ELSE IF ranks_above(x, Head(sq)) THEN <<x>> \o sq
    ELSE <<Head(sq)>> \o insert_sorted(Tail(sq), x)

RECURSIVE sorted_standings(_)
sorted_standings(sq) ==
    IF sq = <<>> THEN <<>>
    ELSE insert_sorted(sorted_standings(SubSeq(sq, 1, Len(sq) - 1)), sq[Len(sq)])

calculate_standings(ts, gs) ==
    LET standings == tally_games([n \in DOMAIN ts |-> ZeroEntry(ts, n)], gs, DOMAIN gs)
        order == TeamsInOrder(ts)
    IN sorted_standings([i \in 1..Len(order) |-> standings[order[i]]])

\* get_standings runs in a worker thread, beside the event loop: its two
\* loads are two transactions. First load_all_teams; the games stored at that
\* moment are kept beside the loaded teams for comparison only.
get_standings_teams ==
    /\ ~reading.busy
    /\ reading' = [busy |-> TRUE, teams |-> load_all_teams, games |-> games]
    /\ UNCHANGED <<teams, games, clock, active, inbox, tasks, resp, npub, cache>>

\* Then load_all_games, calculate_standings and the response.
get_standings ==
    /\ reading.busy
    /\ resp' = [op |-> "getStandings", status |-> 200, detail |-> "",
                body |-> calculate_standings(reading.teams, load_all_games)]
    /\ reading' = NoRead
    /\ UNCHANGED <<teams, games, clock, active, inbox, tasks, npub, cache>>

\* One send_json of a suspended broadcast completes (or raises); the loop then
\* fetches the next element of manager.active by index, or ends, removes the
\* dead connections and lets the handler return.
Deliver(i, sent) ==
    /\ i \in 1..Len(tasks)
    /\ tasks[i].msg.type # "init"
    /\ LET t == tasks[i]
           delivered == sent /\ t.cur \in Range(active)
           dead == IF delivered THEN t.dead ELSE Append(t.dead, t.cur)
           got == IF delivered THEN t.got \cup {t.cur} ELSE t.got
       IN /\ inbox' = IF delivered THEN [inbox EXCEPT ![t.cur] = t.msg] ELSE inbox
          /\ IF t.idx <= Len(active)
             THEN /\ tasks' = [tasks EXCEPT ![i] = [t EXCEPT !.idx = @ + 1,
                                                             !.cur = active[t.idx],
                                                             !.dead = dead,
                                                             !.got = got]]
                  /\ UNCHANGED <<active, resp>>
             ELSE /\ active' = DropDead(active, dead)
                  /\ tasks' = RemoveAt(tasks, i)
                  /\ resp' = t.ret
    /\ UNCHANGED <<teams, games, clock, npub, cache, reading>>

\* websocket_endpoint up to its first suspension after the handshake:
\* manager.connect appends the socket to manager.active, the init snapshot is
\* loaded and the handler is suspended in send_json. Every connection is a new
\* WebSocket object: a name is taken again only when no suspended send still
\* refers to the object that had it.
connect(ws) ==
    /\ ws \notin Range(active)
    /\ \A i \in 1..Len(tasks) : tasks[i].cur # ws /\ ws \notin Range(tasks[i].dead)
    /\ Len(tasks) < MaxInFlight
    /\ active' = Append(active, ws)
    /\ tasks' = Append(tasks, [msg |-> [type |-> "init", teams |-> load_all_teams,
                                        games |-> load_all_games],
                               idx |-> 0, cur |-> ws, dead |-> <<>>, to |-> {ws},
                               got |-> {},
                               ret |-> Response("subscribe", 101, "")])
    /\ UNCHANGED <<teams, games, clock, inbox, resp, npub, cache, reading>>

\* The send_json of the init snapshot completes, and the handler enters its
\* receive loop, or raises WebSocketDisconnect, and the handler calls
\* manager.disconnect.
send_init(i, sent) ==
    /\ i \in 1..Len(tasks)
    /\ tasks[i].msg.type = "init"
    /\ LET t == tasks[i]
           delivered == sent /\ t.cur \in Range(active)
       IN /\ inbox' = IF delivered THEN [inbox EXCEPT ![t.cur] = t.msg] ELSE inbox
          /\ active' = IF delivered THEN active ELSE disconnect(active, t.cur)
          /\ tasks' = RemoveAt(tasks, i)
    /\ UNCHANGED <<teams, games, clock, resp, npub, cache, reading>>

\* websocket_endpoint, except WebSocketDisconnect: manager.disconnect(ws).
ws_disconnect(ws) ==
    /\ active' = disconnect(active, ws)
    /\ UNCHANGED <<teams, games, clock, inbox, tasks, resp, npub, cache, reading>>

\* ---------------------------------------------- Streamlit front end (kij.py)
\* initialize_session_state: the first run of a session loads the teams and
\* the games once.
session_load(s) ==
    /\ ~cache[s].loaded
    /\ cache' = [cache EXCEPT ![s] = [@ EXCEPT !.loaded = TRUE,
                                               !.teams = load_all_teams,
                                               !.games = load_all_games]]
    /\ UNCHANGED <<teams, games, clock, active, inbox, tasks, resp, npub, reading>>

\* live_scoreboard_page reloads st.session_state.teams and .games from the
\* database.
live_scoreboard_page(s) ==
    /\ cache[s].loaded
    /\ cache' = [cache EXCEPT ![s] = [@ EXCEPT !.teams = load_all_teams,
                                               !.games = load_all_games]]
    /\ UNCHANGED <<teams, games, clock, active, inbox, tasks, resp, npub, reading>>

\* save_team_to_db: the INSERT; any exception is reported as False.
save_team_to_db_ok(ts, name, pool, ok) == ok /\ save_team_ok(ts, name) /\ Len(pool) <= 1

UiDone(detail) ==
    /\ resp' = Response("teams_page", 200, detail)
    /\ UNCHANGED <<games, clock, active, inbox, tasks, npub, reading>>

\* teams_page, the registration form of an authenticated admin session.
teams_page(s, team_name, pool, ok) ==
    /\ cache[s].loaded
    /\ IF Cardinality(DOMAIN cache[s].teams) >= MAX_TEAMS
       THEN UiDone("Maximum of 15 teams allowed!") /\ UNCHANGED <<teams, cache>>
       ELSE IF team_name = ""
       THEN UiDone("Please enter a team name!") /\ UNCHANGED <<teams, cache>>
       ELSE IF team_name \in DOMAIN cache[s].teams
       THEN UiDone("Team name already exists!") /\ UNCHANGED <<teams, cache>>
       ELSE IF ~save_team_to_db_ok(teams, team_name, pool, ok)
       THEN UiDone("Failed to save team to database!") /\ UNCHANGED <<teams, cache>>
       ELSE /\ teams' = save_team(teams, team_name, "", "", pool)
            /\ cache' = [cache EXCEPT ![s].teams =
                           (team_name :> [player1 |-> "", player2 |-> "", pool |-> pool]) @@ @]
            /\ UiDone("registered")

\* score_game_interface from its top to the game display, on any run of the
\* script: with both select boxes filled, a missing current_game_key is built
\* from the selection and the clock, and a key that the session's games do
\* not hold gets a new game, saved with save_game_to_db (the upsert of
\* save_game). A key that is already set is kept whatever the selection is.
render_game(sess, gs, t, ok) ==
    IF sess.team1 = Null \/ sess.team2 = Null
    THEN [sess |-> sess, games |-> gs]
    ELSE LET key == IF sess.current_game_key = Null
                    THEN GameKey(sess.team1, sess.team2, t)
                    ELSE sess.current_game_key
             keyed == [sess EXCEPT !.current_game_key = key]
         IN IF key \in DOMAIN sess.games
            THEN [sess |-> keyed, games |-> gs]
            ELSE LET game_data == NewGame(sess.team1, sess.team2, t)
                 IN [sess |-> [keyed EXCEPT !.games = (key :> game_data) @@ @],
                     games |-> save_game(gs, key, game_data, ok)]

\* games_page shows the scoring tab when the session holds two teams or more.
scoring_shown(s) ==
    /\ cache[s].loaded
    /\ Cardinality(DOMAIN cache[s].teams) >= 2

ScoringDone(s, sess, gs, detail) ==
    /\ Cardinality(DOMAIN gs) <= MaxGames
    /\ cache' = [cache EXCEPT ![s] = sess]
    /\ games' = gs
    /\ resp' = Response("score_game_interface", 200, detail)
    /\ UNCHANGED <<teams, clock, active, inbox, tasks, npub, reading>>

\* A run of the page with team1 and team2 in the select boxes: the page as it
\* opens, or after the user has changed a selection. The second box offers
\* the teams other than team1.
score_select(s, team1, team2, ok) ==
    /\ scoring_shown(s)
    /\ {team1, team2} \subseteq DOMAIN cache[s].teams
    /\ team1 # team2
    /\ LET r == render_game([cache[s] EXCEPT !.team1 = team1, !.team2 = team2],
                            games, clock, ok)
       IN ScoringDone(s, r.sess, r.games, "shown")

\* A press of +1 or -1 under a set: the score of current_game changes (a -1
\* at 0 changes nothing), the game is saved and the script runs again.
score_button(s, sk, side, delta, ok) ==
    /\ scoring_shown(s)
    /\ cache[s].team1 # Null
    /\ LET r == render_game(cache[s], games, clock, ok)
           key == r.sess.current_game_key
           current_game == r.sess.games[key]
           current == current_game.sets[sk][ScoreField(side)]
           new_val == IF delta = 1 THEN current + 1
                      ELSE IF current > 0 THEN current - 1
                      ELSE current
           game2 == [current_game EXCEPT !.sets[sk][ScoreField(side)] = new_val]
       IN /\ new_val <= MaxScore
          /\ IF new_val = current
             THEN ScoringDone(s, r.sess, r.games, "shown")
             ELSE LET again == render_game([r.sess EXCEPT !.games[key] = game2],
                                           save_game(r.games, key, game2, ok), clock, ok)
                  IN ScoringDone(s, again.sess, again.games, "score saved")

\* A press of Complete Game: the sets are tallied from current_game, the
\* winner is named from the select boxes, the game is saved, the
\* current_game_key is dropped and the script runs again.
score_complete(s, ok) ==
    /\ scoring_shown(s)
    /\ cache[s].team1 # Null
    /\ LET r == render_game(cache[s], games, clock, ok)
           key == r.sess.current_game_key
           current_game == r.sess.games[key]
           team1_sets == SetsWon(current_game, "team1_score", "team2_score")
           team2_sets == SetsWon(current_game, "team2_score", "team1_score")
           winner == IF team1_sets > team2_sets THEN r.sess.team1
                     ELSE IF team2_sets > team1_sets THEN r.sess.team2
                     ELSE "Split"
           game2 == [current_game EXCEPT !.winner = winner,
                                         !.completed = TRUE,
                                         !.end_time = clock]
           again == render_game([r.sess EXCEPT !.games[key] = game2,
                                               !.current_game_key = Null],
                                save_game(r.games, key, game2, ok), clock, ok)
       IN ScoringDone(s, again.sess, again.games, "Game completed!")

\* ------------------------------------------------------------ specifications
\* A key no game was created under, next to the keys of the stored games.
KeyInputs == DOMAIN games \cup {GameKey("b", "a", 0)}

\* The specifications in which no two score changes overlap explore the scores
\* up to SoloScore.
UpToSoloScore(key, sk, side, delta) ==
    (/\ key \in DOMAIN games
     /\ sk \in DOMAIN games[key].sets
     /\ ScoreField(side) \in DOMAIN games[key].sets[sk])
    => new_score(games[key].sets[sk][ScoreField(side)], delta) <= SoloScore

\* The backend on its own, no subscriber connected.
Next ==
    \/ Tick
    \/ \E p \in PairInputs, ok \in WriteOutcomes : create_game(p[1], p[2], ok)
    \/ \E k \in KeyInputs, si \in ScoreInputs, ok \in WriteOutcomes :
          UpToSoloScore(k, si[1], si[2], si[3]) /\ update_score(k, si[1], si[2], si[3], ok)
    \/ \E k \in KeyInputs, ok \in WriteOutcomes : complete_game(k, ok)
    \/ \E n \in Names, ti \in PlainTeam, ok \in WriteOutcomes :
          create_team(n, ti[1], ti[2], ti[3], ok)
    \/ \E n \in Names : remove_team(n)
    \/ \E ok \in WriteOutcomes : reset_tournament(ok)
    \/ get_teams
    \/ get_games

Spec == Init /\ [][Next]_vars

\* Completion of one game whose set scores are drawn from ScoreValues.
ScoreValues == {0, 15, 18, 19, 21}

DrawnGame(a, b, c, d) ==
    [NewGame("a", "A", 0) EXCEPT
        !.sets = [set1 |-> [team1_score |-> a, team2_score |-> b],
                  set2 |-> [team1_score |-> c, team2_score |-> d]]]

InitComplete ==
    /\ teams = save_team(save_team(EmptyMap, "a", "", "", "A"), "A", "", "", "B")
    /\ \E a \in ScoreValues, b \in ScoreValues, c \in ScoreValues, d \in ScoreValues :
          games = (GameKey("a", "A", 0) :> DrawnGame(a, b, c, d))
    /\ clock = 0
    /\ active = <<>>
    /\ inbox = [w \in Sockets |-> [type |-> "none"]]
    /\ tasks = <<>>
    /\ resp = Response("startup", 200, "")
    /\ npub = 0
    /\ cache = [s \in Sessions |-> NewSession]
    /\ reading = NoRead

NextComplete ==
    \/ Tick
    \/ \E k \in KeyInputs, ok \in WriteOutcomes : complete_game(k, ok)

SpecComplete == InitComplete /\ [][NextComplete]_vars

\* Team registration through the backend and through two Streamlit admin
\* sessions, on a database that holds either no team or MAX_TEAMS - 1 teams.
BaseNames(n) == {"t" \o ToString(i) : i \in 1..n}

BaseTeams(n) == [t \in BaseNames(n) |-> [player1 |-> "", player2 |-> "", pool |-> "A"]]

InitTeams ==
    /\ \E n \in {0, MAX_TEAMS - 1} : teams = BaseTeams(n)
    /\ games = EmptyMap
    /\ clock = 0
    /\ active = <<>>
    /\ inbox = [w \in Sockets |-> [type |-> "none"]]
    /\ tasks = <<>>
    /\ resp = Response("startup", 200, "")
    /\ npub = 0
    /\ cache = [s \in Sessions |-> NewSession]
    /\ reading = NoRead

NextTeams ==
    \/ \E n \in Names, ti \in TeamInputs, ok \in WriteOutcomes :
          create_team(n, ti[1], ti[2], ti[3], ok)
    \/ \E ok \in WriteOutcomes : reset_tournament(ok)
    \/ \E i \in 1..MaxInFlight, sent \in BOOLEAN : Deliver(i, sent)
    \/ connect("w1")
    \/ \E i \in 1..MaxInFlight, sent \in BOOLEAN : send_init(i, sent)
    \/ ws_disconnect("w1")

SpecTeams == InitTeams /\ [][NextTeams]_vars

NextUI ==
    \/ \E s \in Sessions : session_load(s)
    \/ \E s \in Sessions : live_scoreboard_page(s)
    \/ \E s \in Sessions, n \in Names \cup {""}, pool \in {"A", "B"}, ok \in WriteOutcomes :
          teams_page(s, n, pool, ok)
    \/ \E n \in Names, ti \in PlainTeam, ok \in WriteOutcomes :
          create_team(n, ti[1], ti[2], ti[3], ok)

SpecUI == InitTeams /\ [][NextUI]_vars

\* The backend with a database whose writes may fail: save_game, the INSERT of
\* save_team and delete_all_data either commit or raise.
NextFault ==
    \/ \E p \in PairInputs, ok \in BOOLEAN : create_game(p[1], p[2], ok)
    \/ \E k \in KeyInputs, si \in ScoreInputs, ok \in BOOLEAN :
          UpToSoloScore(k, si[1], si[2], si[3]) /\ update_score(k, si[1], si[2], si[3], ok)
    \/ \E k \in KeyInputs, ok \in BOOLEAN : complete_game(k, ok)
    \/ \E n \in Names, ti \in PlainTeam, ok \in BOOLEAN :
          create_team(n, ti[1], ti[2], ti[3], ok)
    \/ \E ok \in BOOLEAN : reset_tournament(ok)

SpecFault == Init /\ [][NextFault]_vars

\* The five mutating operations with one subscriber that never disconnects;
\* suspended broadcasts resume in the order they were started.
PublishScores == {<<"set1", "team1", 1>>, <<"set1", "team1", -1>>}

NextPublish ==
    \/ \E ok \in WriteOutcomes : create_game("a", "A", ok)
    \/ \E k \in KeyInputs, si \in PublishScores, ok \in WriteOutcomes :
          UpToSoloScore(k, si[1], si[2], si[3]) /\ update_score(k, si[1], si[2], si[3], ok)
    \/ \E k \in KeyInputs, ok \in WriteOutcomes : complete_game(k, ok)
    \/ \E ti \in PlainTeam, ok \in WriteOutcomes : create_team("a", ti[1], ti[2], ti[3], ok)
    \/ \E ok \in WriteOutcomes : reset_tournament(ok)
    \/ connect("w1")
    \/ send_init(1, TRUE)
    \/ Deliver(1, TRUE)

SpecPublish == Init /\ [][NextPublish]_vars

\* The hub: two subscribers connecting and disconnecting while the scores of
\* one game between two registered teams go up.
HubScores == {<<"set1", "team1", 1>>, <<"set2", "team2", 1>>}

InitHub ==
    /\ teams = save_team(save_team(EmptyMap, "a", "", "", "A"), "A", "", "", "B")
    /\ games = (GameKey("a", "A", 0) :> NewGame("a", "A", 0))
    /\ clock = 0
    /\ active = <<>>
    /\ inbox = [w \in Sockets |-> [type |-> "none"]]
    /\ tasks = <<>>
    /\ resp = Response("startup", 200, "")
    /\ npub = 0
    /\ cache = [s \in Sessions |-> NewSession]
    /\ reading = NoRead

NextHub ==
    \/ \E k \in DOMAIN games, si \in HubScores, ok \in WriteOutcomes :
          update_score(k, si[1], si[2], si[3], ok)
    \/ \E w \in Sockets : inbox[w].type = "none" /\ connect(w)
    \/ \E i \in 1..MaxInFlight, sent \in BOOLEAN : send_init(i, sent)
    \/ \E w \in Sockets : ws_disconnect(w)
    \/ \E i \in 1..MaxInFlight, sent \in BOOLEAN : Deliver(i, sent)

SpecHub == InitHub /\ [][NextHub]_vars

\* The backend used by callers none of whom holds the admin credential.
Usernames == {"admin", "guest"}
Passwords == {"volleyball123", "volleyball", ""}
AnonCredentials ==
    {c \in Usernames \X Passwords : ~(c[1] = ADMIN_USERNAME /\ verify(c[2]))}

NextAnon ==
    \/ Tick
    \/ \E c \in AnonCredentials : login(c[1], c[2])
    \/ \E p \in PairInputs, ok \in WriteOutcomes : create_game(p[1], p[2], ok)
    \/ \E k \in KeyInputs, si \in PublishScores, ok \in WriteOutcomes :
          UpToSoloScore(k, si[1], si[2], si[3]) /\ update_score(k, si[1], si[2], si[3], ok)
    \/ \E n \in Names, ti \in PlainTeam, ok \in WriteOutcomes :
          create_team(n, ti[1], ti[2], ti[3], ok)
    \/ \E ok \in WriteOutcomes : reset_tournament(ok)

SpecAnon == Init /\ [][NextAnon]_vars

\* One game scored with every input of ScoreInputs, no subscriber connected.
NextDelta ==
    \/ \E k \in KeyInputs, si \in ScoreInputs, ok \in WriteOutcomes :
          update_score(k, si[1], si[2], si[3], ok)
    \/ \E k \in KeyInputs, ok \in WriteOutcomes : complete_game(k, ok)

SpecDelta == InitHub /\ [][NextDelta]_vars

\* The hub with both subscribers connected and past their init snapshot: the
\* scores of the game go up while subscribers leave, and nobody joins.
InitFanOut ==
    /\ teams = save_team(save_team(EmptyMap, "a", "", "", "A"), "A", "", "", "B")
    /\ games = (GameKey("a", "A", 0) :> NewGame("a", "A", 0))
    /\ clock = 0
    /\ active = <<"w1", "w2">>
    /\ inbox = [w \in Sockets |-> [type |-> "init", teams |-> teams, games |-> games]]
    /\ tasks = <<>>
    /\ resp = Response("subscribe", 101, "")
    /\ npub = 0
    /\ cache = [s \in Sessions |-> NewSession]
    /\ reading = NoRead

NextFanOut ==
    \/ \E k \in DOMAIN games, si \in HubScores, ok \in WriteOutcomes :
          update_score(k, si[1], si[2], si[3], ok)
    \/ \E w \in Sockets : w \in Range(active) /\ ws_disconnect(w)
    \/ \E i \in 1..MaxInFlight, sent \in BOOLEAN : Deliver(i, sent)

SpecFanOut == InitFanOut /\ [][NextFanOut]_vars

\* One Streamlit session on the scoring page of a tournament of three teams,
\* choosing a against b or c against b and scoring for the left-hand side.
ScoringTeams == {"a", "b", "c"}
ScoringPairs == {<<"a", "b">>, <<"c", "b">>}
ScoringButtons == {<<"set1", "team1", 1>>, <<"set1", "team1", -1>>}

InitScoring ==
    /\ teams = [n \in ScoringTeams |-> [player1 |-> "", player2 |-> "", pool |-> "A"]]
    /\ games = EmptyMap
    /\ clock = 0
    /\ active = <<>>
    /\ inbox = [w \in Sockets |-> [type |-> "none"]]
    /\ tasks = <<>>
    /\ resp = Response("startup", 200, "")
    /\ npub = 0
    /\ cache = [s \in Sessions |-> NewSession]
    /\ reading = NoRead

NextScoring ==
    \/ Tick
    \/ session_load("s1")
    \/ \E p \in ScoringPairs, ok \in WriteOutcomes : score_select("s1", p[1], p[2], ok)
    \/ \E b \in ScoringButtons, ok \in WriteOutcomes :
          score_button("s1", b[1], b[2], b[3], ok)
    \/ \E ok \in WriteOutcomes : score_complete("s1", ok)

SpecScoring == InitScoring /\ [][NextScoring]_vars

\* Standings of a database that holds some of the teams a, b, c, d and some
\* of the games below, read while the tournament may be reset.
Sets(a, b, c, d) ==
    [set1 |-> [team1_score |-> a, team2_score |-> b],
     set2 |-> [team1_score |-> c, team2_score |-> d]]

Played(team1, team2, sets) ==
    LET game == [NewGame(team1, team2, 0) EXCEPT !.sets = sets]
    IN [game EXCEPT !.completed = TRUE, !.winner = decide_winner(game), !.end_time = 0]

GamePool ==
    {Played("a", "d", Sets(21, 16, 21, 16)),
     Played("b", "d", Sets(21, 19, 21, 20)),
     Played("c", "d", Sets(50, 0, 0, 0)),
     Played("b", "a", Sets(15, 21, 21, 15)),
     Played("b", "b", Sets(21, 15, 0, 0)),
     Played("a", "z", Sets(21, 0, 21, 0)),
     [NewGame("a", "b", 0) EXCEPT !.sets = Sets(21, 19, 18, 21)]}

GamesOf(gs) == [k \in {GameKey(g.team1, g.team2, 0) : g \in gs} |->
                   CHOOSE g \in gs : GameKey(g.team1, g.team2, 0) = k]

InitStandings ==
    /\ \E ns \in SUBSET Range(NameOrder) :
          teams = [n \in ns |-> [player1 |-> "", player2 |-> "", pool |-> "A"]]
    /\ \E gs \in SUBSET GamePool : games = GamesOf(gs)
    /\ clock = 0
    /\ active = <<>>
    /\ inbox = [w \in Sockets |-> [type |-> "none"]]
    /\ tasks = <<>>
    /\ resp = Response("startup", 200, "")
    /\ npub = 0
    /\ cache = [s \in Sessions |-> NewSession]
    /\ reading = NoRead

NextStandings ==
    \/ get_standings_teams
    \/ get_standings
    \/ \E ok \in WriteOutcomes : reset_tournament(ok)

SpecStandings == InitStandings /\ [][NextStandings]_vars

\* ------------------------------------------------------------------- claims
ScoreFields == {"team1_score", "team2_score"}

ScoresOf(game) == {game.sets[sk][f] : sk \in DOMAIN game.sets, f \in ScoreFields}

Pools == {"A", "B", "C"}

\* C1: every set score of every stored game is an integer >= 0, and a
\* successful adjustScore leaves max(0, current + delta) in the targeted score.
C1_ScoresNeverNegative ==
    /\ [](\A k \in DOMAIN games : \A v \in ScoresOf(games[k]) : v \in Nat)
    /\ [][\A k \in DOMAIN games, si \in ScoreInputs :
            (/\ update_score(k, si[1], si[2], si[3], TRUE)
             /\ resp'.op = "adjustScore"
             /\ resp'.status = 200)
            => LET before == games[k].sets[si[1]][ScoreField(si[2])]
                   after == games'[k].sets[si[1]][ScoreField(si[2])]
               IN after = (IF before + si[3] > 0 THEN before + si[3] ELSE 0)]_vars

C1_Witness ==
    /\ resp.op = "adjustScore"
    /\ resp.status = 200
    /\ resp.game.sets.set1.team1_score = 1
    /\ resp.game.sets.set2.team2_score = 0

\* C2: adjustScore on a completed game is answered 400 "Game already
\* completed"; no game, team or score changes and nothing is published.
C2_CompletedGameRejectsAdjust ==
    [][\A k \in DOMAIN games, si \in ScoreInputs :
          (games[k].completed /\ update_score(k, si[1], si[2], si[3], TRUE))
          => /\ resp' = Response("adjustScore", 400, "Game already completed")
             /\ games' = games
             /\ teams' = teams
             /\ npub' = npub
             /\ tasks' = tasks
             /\ inbox' = inbox]_vars

C2_Witness ==
    /\ resp = Response("adjustScore", 400, "Game already completed")
    /\ \E k \in DOMAIN games : games[k].completed /\ games[k].sets # ZeroSets

\* C3: once the game stored under a key is completed, it is completed in
\* every later state that has a game under that key.
C3_CompletedIsMonotonic ==
    [][\A k \in DOMAIN games :
          (games[k].completed /\ k \in DOMAIN games') => games'[k].completed]_vars

\* C4: once the game stored under a key is completed, its four set scores
\* never change while a game is stored under that key.
C4_ScoresFrozenAfterCompletion ==
    [][\A k \in DOMAIN games :
          (games[k].completed /\ k \in DOMAIN games')
          => games'[k].sets = games[k].sets]_vars

\* C5: every completeGame on a stored game succeeds and returns the winner it
\* stores; on a game that is already completed it returns the winner stored
\* by the earlier call and changes neither start_time, the set scores nor the
\* completed flag.
C5_CompleteGameIdempotent ==
    [][\A k \in DOMAIN games :
          complete_game(k, TRUE)
          => /\ resp'.op = "completeGame"
             /\ resp'.status = 200
             /\ resp'.winner = games'[k].winner
             /\ games[k].completed
                => /\ resp'.winner = games[k].winner
                   /\ games'[k].completed
                   /\ games'[k].start_time = games[k].start_time
                   /\ games'[k].sets = games[k].sets]_vars

C5_Witness ==
    /\ npub = 2
    /\ resp.op = "completeGame"
    /\ resp.status = 200
    /\ \E k \in DOMAIN games : games[k].completed /\ games[k].end_time = 1

\* C6: the winner stored and returned by completeGame is team1 when team1 has
\* the strictly higher score in more sets than team2, team2 in the opposite
\* case and "Split" otherwise; sets 21-19, 18-21 give "Split" and sets 21-15,
\* 21-18 give team1.
SetSign(s) ==
    IF s.team1_score > s.team2_score THEN 1
    ELSE IF s.team2_score > s.team1_score THEN -1
    ELSE 0

RuleWinner(game) ==
    LET balance == SetSign(game.sets.set1) + SetSign(game.sets.set2)
    IN IF balance > 0 THEN game.team1
       ELSE IF balance < 0 THEN game.team2
       ELSE "Split"

C6_WinnerRule ==
    \A k \in DOMAIN games :
        games[k].completed
        => /\ games[k].winner = RuleWinner(games[k])
           /\ (resp.op = "completeGame" /\ resp.status = 200)
              => resp.winner = games[k].winner
           /\ games[k].sets = DrawnGame(21, 19, 18, 21).sets
              => games[k].winner = "Split"
           /\ games[k].sets = DrawnGame(21, 15, 21, 18).sets
              => games[k].winner = games[k].team1

C6_Witness ==
    \E k \in DOMAIN games :
        /\ games[k].completed
        /\ games[k].sets = DrawnGame(21, 19, 18, 21).sets
        /\ games[k].winner = "Split"
        /\ resp.op = "completeGame"

\* C7: createGame with team1 = team2, or with a name that is not registered,
\* is refused: no game is created or changed and nothing is published.
C7_CreateGameChecksTeams ==
    [][\A p \in PairInputs :
          (/\ p[1] = p[2] \/ p[1] \notin DOMAIN teams \/ p[2] \notin DOMAIN teams
           /\ create_game(p[1], p[2], TRUE))
          => /\ games' = games
             /\ npub' = npub
             /\ resp'.status # 200]_vars

\* C8: the teams table never holds more than MAX_TEAMS teams.
C8_TeamCountWithinCapacity == Cardinality(DOMAIN teams) <= MAX_TEAMS

\* C9: below capacity, registerTeam with the exact name of a registered team
\* is answered 400 "Team name already exists", changes no team and publishes
\* nothing; with any other name (also one that differs only in letter case)
\* and a pool of A, B or C it stores the team as given.
C9_DuplicateNameRejected ==
    [][\A n \in Names, ti \in TeamInputs :
          (Cardinality(DOMAIN teams) < MAX_TEAMS /\ create_team(n, ti[1], ti[2], ti[3], TRUE))
          => IF n \in DOMAIN teams
             THEN /\ resp' = Response("registerTeam", 400, "Team name already exists")
                  /\ teams' = teams
                  /\ npub' = npub
                  /\ tasks' = tasks
                  /\ inbox' = inbox
             ELSE ti[3] \in Pools
                  => /\ DOMAIN teams' = DOMAIN teams \cup {n}
                     /\ teams'[n] = [player1 |-> ti[1], player2 |-> ti[2], pool |-> ti[3]]
                     /\ \A m \in DOMAIN teams : teams'[m] = teams[m]]_vars

C9_Witness ==
    /\ resp = Response("registerTeam", 400, "Team name already exists")
    /\ {"a", "A"} \subseteq DOMAIN teams
    /\ teams["a"].pool # teams["A"].pool

\* C10: a successful resetAll leaves no team and no game; listTeams and
\* listGames called next return empty mappings and registerTeam called next
\* stores its team as it does in the initial state.
C10_ResetRestoresInitialState ==
    /\ [][reset_tournament(TRUE)
          => (teams' = EmptyMap /\ games' = EmptyMap
              /\ resp' = Response("resetAll", 200, ""))]_vars
    /\ [][(resp = Response("resetAll", 200, "") /\ (get_teams \/ get_games))
          => resp'.body = EmptyMap]_vars
    /\ [][\A n \in Names, ti \in PlainTeam :
            (resp = Response("resetAll", 200, "") /\ create_team(n, ti[1], ti[2], ti[3], TRUE))
            => /\ resp'.op = "registerTeam"
               /\ resp'.status = 200
               /\ teams' = save_team(EmptyMap, n, ti[1], ti[2], ti[3])
               /\ games' = EmptyMap]_vars

C10_Witness ==
    /\ resp = Response("resetAll", 200, "")
    /\ teams = EmptyMap
    /\ games = EmptyMap
    /\ npub = 2


\* C11: when the durable write of registerTeam, createGame, adjustScore,
\* completeGame or resetAll fails, the operation answers with an error status
\* and publishes nothing.
C11_FailedWriteNotPublished ==
    /\ [][\A p \in PairInputs :
            create_game(p[1], p[2], FALSE) => (resp'.status # 200 /\ npub' = npub)]_vars
    /\ [][\A k \in DOMAIN games, si \in ScoreInputs :
            (/\ ~games[k].completed
             /\ si[1] \in DOMAIN games[k].sets
             /\ ScoreField(si[2]) \in DOMAIN games[k].sets[si[1]]
             /\ update_score(k, si[1], si[2], si[3], FALSE))
            => (resp'.status # 200 /\ npub' = npub)]_vars
    /\ [][\A k \in DOMAIN games :
            complete_game(k, FALSE) => (resp'.status # 200 /\ npub' = npub)]_vars
    /\ [][\A n \in Names, ti \in PlainTeam :
            (/\ Cardinality(DOMAIN teams) < MAX_TEAMS
             /\ n \notin DOMAIN teams
             /\ create_team(n, ti[1], ti[2], ti[3], FALSE))
            => (resp'.status # 200 /\ npub' = npub)]_vars
    /\ [][reset_tournament(FALSE) => (resp'.status # 200 /\ npub' = npub)]_vars


\* C12: every successful registerTeam, createGame, adjustScore, completeGame
\* and resetAll starts exactly one publish, and the event it publishes is built
\* from the state its write has committed; no other step starts a publish.
StepStatus == IF tasks' # tasks /\ tasks' # <<>> /\ Len(tasks') > Len(tasks)
              THEN tasks'[Len(tasks')].ret.status
              ELSE resp'.status

PublishedOnce(msg) ==
    /\ npub' = (npub + 1) % PubMod
    /\ IF active = <<>>
       THEN tasks' = tasks
       ELSE /\ Len(tasks') = Len(tasks) + 1
            /\ SubSeq(tasks', 1, Len(tasks)) = tasks
            /\ tasks'[Len(tasks')].msg = msg

C12_OnePublishAfterCommit ==
    /\ [][(create_game("a", "A", TRUE) /\ StepStatus = 200)
          => /\ GameKey("a", "A", clock) \in DOMAIN games'
             /\ PublishedOnce([type |-> "games_updated", games |-> games'])]_vars
    /\ [][\A k \in KeyInputs, si \in PublishScores :
            (update_score(k, si[1], si[2], si[3], TRUE) /\ StepStatus = 200)
            => PublishedOnce([type |-> "score_updated", game_key |-> k,
                              games |-> games'])]_vars
    /\ [][\A k \in KeyInputs :
            (complete_game(k, TRUE) /\ StepStatus = 200)
            => /\ games'[k].completed
               /\ PublishedOnce([type |-> "game_completed", games |-> games'])]_vars
    /\ [][\A ti \in PlainTeam :
            (create_team("a", ti[1], ti[2], ti[3], TRUE) /\ StepStatus = 200)
            => /\ "a" \in DOMAIN teams'
               /\ PublishedOnce([type |-> "teams_updated", teams |-> teams'])]_vars
    /\ [][(reset_tournament(TRUE) /\ StepStatus = 200)
          => /\ teams' = EmptyMap
             /\ games' = EmptyMap
             /\ PublishedOnce([type |-> "tournament_reset"])]_vars
    /\ [][(connect("w1") \/ send_init(1, TRUE) \/ Deliver(1, TRUE)) => npub' = npub]_vars

C12_Witness ==
    /\ Len(tasks) = 2
    /\ tasks[1].msg.type = "games_updated"
    /\ tasks[2].msg.type = "score_updated"
    /\ tasks[2].msg.games = games
    /\ tasks[1].msg.games # games


\* C13: the first event a new subscriber receives is init, carrying the teams
\* and games stored at the moment it subscribed; no state-change event reaches
\* it before its init event.
C13_InitIsFirstEvent ==
    [][\A w \in Sockets :
          (inbox[w].type = "none" /\ inbox'[w] # inbox[w])
          => /\ inbox'[w].type = "init"
             /\ \E i \in 1..Len(tasks) :
                   /\ tasks[i].cur = w
                   /\ tasks[i].msg = inbox'[w]]_vars


\* C14: when a publish ends, every subscriber that was active when it started
\* and is still active has been sent the event, whether or not sends to other
\* subscribers failed, and the publish has removed from the active set exactly
\* the subscribers whose send failed.
C14_PublishIsolatesFailures ==
    [][\A i \in 1..Len(tasks), sent \in BOOLEAN :
          (Deliver(i, sent) /\ Len(tasks') < Len(tasks))
          => LET t == tasks[i]
                 delivered == sent /\ t.cur \in Range(active)
                 failed == Range(t.dead) \cup (IF delivered THEN {} ELSE {t.cur})
                 got == t.got \cup (IF delivered THEN {t.cur} ELSE {})
             IN /\ Range(active') = Range(active) \ failed
                /\ (Range(active') \cap t.to) \subseteq got]_vars


\* C15: a subscriber that receives the events of two committed adjustScore
\* calls on one game receives them in the order of the commits. The scores of
\* the game only go up here, so the later commit is the one with more points.
Seen(msg) ==
    LET game == msg.games[GameKey("a", "A", 0)]
    IN PointsOf(game, "team1_score") + PointsOf(game, "team2_score")

C15_EventsInCommitOrder ==
    [][\A w \in Sockets :
          (/\ inbox[w].type = "score_updated"
           /\ inbox'[w].type = "score_updated"
           /\ inbox'[w] # inbox[w])
          => Seen(inbox'[w]) > Seen(inbox[w])]_vars


\* C16: no adjustScore is lost. Every successful adjustScore with delta +1
\* stores a score exactly 1 above the one stored before it, also when an
\* earlier adjustScore on the same game has not returned yet, so that the
\* points stored for the game equal the number of successful calls: two
\* overlapping calls on one score leave it 2 higher.
C16_NoLostUpdate ==
    /\ [](Seen([games |-> games]) % PubMod = npub)
    /\ [][\A k \in DOMAIN games, si \in HubScores :
            (update_score(k, si[1], si[2], si[3], TRUE) /\ StepStatus = 200)
            => games' = [games EXCEPT ![k].sets[si[1]][ScoreField(si[2])] = @ + 1]]_vars

C16_Witness ==
    /\ Len(tasks) = 2
    /\ tasks[1].msg.type = "score_updated"
    /\ tasks[2].msg.type = "score_updated"
    /\ tasks[1].ret.game.sets.set1.team1_score = 1
    /\ tasks[2].ret.game.sets.set1.team1_score = 2
    /\ tasks[2].ret.game.sets.set2.team2_score = 0
    /\ games[GameKey("a", "A", 0)].sets.set1.team1_score = 2


\* C17: the result of getStandings is computeStandings of the teams and games
\* of one state the database was in between the call's start and its return.
\* The tournament changes at most once during a call here (a reset), so the
\* database was in the state of the call's start or in the state of its return.
C17_StandingsOfOneState ==
    [][get_standings
       => resp'.body \in {calculate_standings(reading.teams, reading.games),
                          calculate_standings(teams, games)}]_vars


\* C18: the list returned by computeStandings is ordered descending by
\* (set_wins, point_differential): of two consecutive entries the first has
\* more set wins, or as many set wins and a point differential at least as
\* high; a team with (2, +10) stands above one with (2, +3), which stands
\* above one with (1, +50).
StandingsReturned == resp.op = "getStandings" /\ resp.status = 200

RankKey(e) == <<e.set_wins, e.point_differential>>

C18_StandingsOrdered ==
    StandingsReturned
    => /\ \A i \in 1..(Len(resp.body) - 1) :
             LET a == resp.body[i]
                 b == resp.body[i + 1]
             IN \/ a.set_wins > b.set_wins
                \/ a.set_wins = b.set_wins /\ a.point_differential >= b.point_differential
       /\ \A i \in 1..Len(resp.body), j \in 1..Len(resp.body) :
             \/ RankKey(resp.body[i]) = <<2, 10>> /\ RankKey(resp.body[j]) = <<2, 3>>
             \/ RankKey(resp.body[i]) = <<2, 3>> /\ RankKey(resp.body[j]) = <<1, 50>>
             => i < j

C18_Witness ==
    /\ StandingsReturned
    /\ Len(resp.body) = 4
    /\ RankKey(resp.body[1]) = <<2, 10>>
    /\ RankKey(resp.body[2]) = <<2, 3>>
    /\ RankKey(resp.body[3]) = <<1, 50>>
    /\ RankKey(resp.body[4]) = <<0, -63>>


\* C19: computeStandings returns one entry per team passed to it. A team's
\* points_for are the points it scored and its points_against the points its
\* opponents scored in the sets of the counted games (completed, both teams
\* registered); set_wins and set_losses count the sets in which it scored
\* strictly more and strictly less than its opponent; point_differential is
\* points_for - points_against.
RECURSIVE SumOf(_, _)
SumOf(f, S) ==
    IF S = {} THEN 0
    ELSE LET x == CHOOSE y \in S : TRUE
         IN f[x] + SumOf(f, S \ {x})

\* The appearances of a team in the sets of the counted games: game, set and
\* the side it played.
Appearances(ts, gs, t) ==
    {ap \in (DOMAIN gs) \X {"set1", "set2"} \X {"team1", "team2"} :
        /\ gs[ap[1]].completed
        /\ gs[ap[1]].team1 \in DOMAIN ts
        /\ gs[ap[1]].team2 \in DOMAIN ts
        /\ gs[ap[1]][ap[3]] = t}

OtherSide(side) == IF side = "team1" THEN "team2" ELSE "team1"

Scored(gs, ap) == gs[ap[1]].sets[ap[2]][ScoreField(ap[3])]

Conceded(gs, ap) == gs[ap[1]].sets[ap[2]][ScoreField(OtherSide(ap[3]))]

C19_StandingsTotals ==
    [][get_standings
       => LET ts == reading.teams
              gs == games
              body == resp'.body
          IN /\ Len(body) = Cardinality(DOMAIN ts)
             /\ {body[i].team : i \in 1..Len(body)} = DOMAIN ts
             /\ \A i \in 1..Len(body) :
                   LET e == body[i]
                       aps == Appearances(ts, gs, e.team)
                   IN /\ e.points_for = SumOf([ap \in aps |-> Scored(gs, ap)], aps)
                      /\ e.points_against = SumOf([ap \in aps |-> Conceded(gs, ap)], aps)
                      /\ e.set_wins =
                            Cardinality({ap \in aps : Scored(gs, ap) > Conceded(gs, ap)})
                      /\ e.set_losses =
                            Cardinality({ap \in aps : Scored(gs, ap) < Conceded(gs, ap)})
                      /\ e.point_differential = e.points_for - e.points_against]_vars

C19_Witness ==
    /\ StandingsReturned
    /\ \E i \in 1..Len(resp.body), j \in 1..Len(resp.body) :
          /\ resp.body[i].team = "c"
          /\ resp.body[i].set_wins = 1
          /\ resp.body[i].set_losses = 0
          /\ resp.body[i].points_for = 50
          /\ resp.body[j].team = "d"
          /\ resp.body[j].set_losses = 5
          /\ resp.body[j].points_for = 71
          /\ resp.body[j].points_against = 134


\* C21: end_time is null while a game is not completed and, once a completeGame
\* has set it, it keeps that value in every later state that has the game,
\* also across further completeGame calls.
C21_EndTimeSetOnce ==
    /\ [](\A k \in DOMAIN games : ~games[k].completed => games[k].end_time = NoTime)
    /\ [][\A k \in DOMAIN games :
            (games[k].end_time # NoTime /\ k \in DOMAIN games')
            => games'[k].end_time = games[k].end_time]_vars


\* C22: the start_time stored under a game key does not change as long as a
\* game is stored under that key, whichever operation runs, also a createGame
\* that builds the same key again.
C22_StartTimeImmutable ==
    [][\A k \in DOMAIN games :
          k \in DOMAIN games' => games'[k].start_time = games[k].start_time]_vars

C22_Witness ==
    /\ resp.op = "createGame"
    /\ resp.status = 200
    /\ resp.game.start_time = 1
    /\ resp.game_key \in DOMAIN games
    /\ games[resp.game_key].start_time = 0


\* C23: a stored game has no winner exactly when it is not completed, and the
\* winner of a completed game is its team1, its team2 or "Split".
C23_WinnerIffCompleted ==
    \A k \in DOMAIN games :
        /\ (games[k].winner = Null) <=> ~games[k].completed
        /\ games[k].completed
           => games[k].winner \in {games[k].team1, games[k].team2, "Split"}

C23_Witness ==
    \E k \in DOMAIN games, j \in DOMAIN games :
        /\ games[k].completed
        /\ games[k].winner = "a"
        /\ games[k].team2 = "A"
        /\ games[j].completed
        /\ games[j].winner = "Split"


\* C24: team1 and team2 of every stored game are names of registered teams.
C24_GamesReferToTeams ==
    \A k \in DOMAIN games : {games[k].team1, games[k].team2} \subseteq DOMAIN teams

\* C25: a registered team leaves the team mapping only in a step of resetAll.
C25_TeamRemovedOnlyByReset ==
    [][(\E n \in DOMAIN teams : n \notin DOMAIN teams') => reset_tournament(TRUE)]_vars


\* C26: every registered team has a pool in {A, B, C}.
C26_PoolInABC ==
    \A n \in DOMAIN teams : teams[n].pool \in Pools


\* C27: while no caller has logged in successfully, a reset request leaves
\* teams and games unchanged.
C27_ResetNeedsAdmin ==
    [][(\E ok \in BOOLEAN : reset_tournament(ok)) => (teams' = teams /\ games' = games)]_vars


\* C28: adjustScore and completeGame with a game key that is not stored are
\* answered GameNotFound, change no team and no game and publish nothing.
C28_UnknownKeyRejected ==
    [][\A k \in KeyInputs \ DOMAIN games :
          (\/ \E si \in ScoreInputs : update_score(k, si[1], si[2], si[3], TRUE)
           \/ complete_game(k, TRUE))
          => /\ resp'.op \in {"adjustScore", "completeGame"}
             /\ resp'.status = 404
             /\ resp'.detail = "Game not found"
             /\ teams' = teams
             /\ games' = games
             /\ npub' = npub
             /\ tasks' = tasks
             /\ inbox' = inbox]_vars

C28_Witness ==
    /\ resp.op = "completeGame"
    /\ resp.status = 404
    /\ teams # EmptyMap
    /\ games # EmptyMap


\* C29: unsubscribe of a handle that is not active leaves the active set as it
\* is; unsubscribe of an active handle takes it out of the active set, and a
\* handle outside the active set is sent nothing.
C29_UnsubscribeStopsEvents ==
    /\ [](\A w \in Sockets :
            IF w \in Range(active)
            THEN Range(disconnect(active, w)) = Range(active) \ {w}
            ELSE disconnect(active, w) = active)
    /\ [][\A w \in Sockets : inbox'[w] # inbox[w] => w \in Range(active)]_vars

C29_Witness ==
    /\ "w1" \notin Range(active)
    /\ "w2" \in Range(active)
    /\ inbox["w1"].type = "score_updated"
    /\ inbox["w2"].type = "score_updated"
    /\ inbox["w2"] # inbox["w1"]


\* C30: a successful adjustScore has delta +1 or -1 and changes the targeted
\* score by at most 1.
C30_DeltaIsOneStep ==
    [][\A k \in DOMAIN games, si \in ScoreInputs :
          (/\ update_score(k, si[1], si[2], si[3], TRUE)
           /\ resp'.op = "adjustScore"
           /\ resp'.status = 200)
          => LET before == games[k].sets[si[1]][ScoreField(si[2])]
                 after == games'[k].sets[si[1]][ScoreField(si[2])]
             IN /\ si[3] \in {1, -1}
                /\ after - before \in {-1, 0, 1}]_vars


\* C31: a successful adjustScore changes the targeted score and nothing else:
\* the other scores and fields of the game, every other game and every team
\* stay as they were.
C31_AdjustScoreFrame ==
    [][\A k \in DOMAIN games, si \in ScoreInputs :
          (/\ update_score(k, si[1], si[2], si[3], TRUE)
           /\ resp'.op = "adjustScore"
           /\ resp'.status = 200)
          => /\ teams' = teams
             /\ DOMAIN games' = DOMAIN games
             /\ \A j \in DOMAIN games \ {k} : games'[j] = games[j]
             /\ games'[k] = [games[k] EXCEPT !.sets[si[1]][ScoreField(si[2])] =
                                games'[k].sets[si[1]][ScoreField(si[2])]]]_vars

C31_Witness ==
    /\ resp.op = "adjustScore"
    /\ resp.status = 200
    /\ teams # EmptyMap
    /\ Cardinality(DOMAIN games) = 2
    /\ resp.game.sets.set1.team1_score = 1
    /\ resp.game.sets.set2.team2_score = 1
    /\ \E k \in DOMAIN games : games[k].completed


\* C32: adjustScore with delta -1 on a score of 0 of a game that is not
\* completed succeeds, leaves the score at 0 and publishes one score_updated.
C32_DecrementAtZero ==
    [][\A k \in DOMAIN games, si \in PublishScores :
          (/\ si[3] = -1
           /\ ~games[k].completed
           /\ games[k].sets[si[1]][ScoreField(si[2])] = 0
           /\ update_score(k, si[1], si[2], si[3], TRUE))
          => /\ StepStatus = 200
             /\ games'[k].sets[si[1]][ScoreField(si[2])] = 0
             /\ games' = games
             /\ PublishedOnce([type |-> "score_updated", game_key |-> k,
                               games |-> games'])]_vars

C32_Witness ==
    /\ Len(tasks) = 2
    /\ tasks[1].msg.type = "games_updated"
    /\ tasks[2].msg.type = "score_updated"
    /\ tasks[2].msg.games = tasks[1].msg.games
    /\ tasks[2].ret.status = 200


\* C33: the score_updated event of an adjustScore carries the games as stored
\* by that adjustScore, with the score it wrote under the event's game_key,
\* the game answered to the caller is the game as stored by that adjustScore,
\* and a subscriber is sent the event as it was built.
C33_EventReflectsMutation ==
    /\ [][\A k \in DOMAIN games, si \in HubScores :
            (update_score(k, si[1], si[2], si[3], TRUE) /\ StepStatus = 200)
            => LET written == new_score(games[k].sets[si[1]][ScoreField(si[2])], si[3])
               IN /\ games'[k].sets[si[1]][ScoreField(si[2])] = written
                  /\ IF active = <<>>
                     THEN resp'.game = games'[k]
                     ELSE LET t == tasks'[Len(tasks')]
                          IN /\ t.msg.type = "score_updated"
                             /\ t.msg.game_key = k
                             /\ t.msg.games[k].sets[si[1]][ScoreField(si[2])] = written
                             /\ t.msg.games = games'
                             /\ t.ret.game = games'[k]]_vars
    /\ [][\A w \in Sockets :
            inbox'[w] # inbox[w] => \E i \in 1..Len(tasks) : inbox'[w] = tasks[i].msg]_vars
    /\ [][resp' # resp => (tasks' = tasks \/ \E i \in 1..Len(tasks) : resp' = tasks[i].ret)]_vars

C33_Witness ==
    /\ Len(tasks) = 2
    /\ tasks[1].msg.type = "score_updated"
    /\ tasks[2].msg.type = "score_updated"
    /\ \E k \in DOMAIN games :
          /\ tasks[1].msg.games[k].sets.set1.team1_score = 1
          /\ tasks[2].msg.games[k].sets.set1.team1_score = 2
          /\ tasks[2].ret.game = games[k]
          /\ tasks[1].ret.game # games[k]
    /\ inbox["w1"] = tasks[1].msg


\* C34: computeStandings gives the same list, counters and order, with or
\* without a game that is not completed or that names a team which is not
\* registered, singly or all of them together.
Ignored(ts, gd) == ~gd.completed \/ gd.team1 \notin DOMAIN ts \/ gd.team2 \notin DOMAIN ts

Without(gs, keys) == [k \in DOMAIN gs \ keys |-> gs[k]]

C34_StandingsIgnoreGames ==
    /\ \A k \in DOMAIN games :
          Ignored(teams, games[k])
          => calculate_standings(teams, Without(games, {k})) = calculate_standings(teams, games)
    /\ calculate_standings(teams, Without(games, {k \in DOMAIN games : Ignored(teams, games[k])}))
          = calculate_standings(teams, games)

C34_Witness ==
    /\ StandingsReturned
    /\ {"a", "b"} \subseteq DOMAIN teams
    /\ {GameKey("a", "b", 0), GameKey("a", "z", 0), GameKey("b", "a", 0)} \subseteq DOMAIN games
    /\ \E i \in 1..Len(resp.body) : resp.body[i].team = "a" /\ resp.body[i].games_played = 1


\* C35: a successful createGame adds one game under a new key and leaves
\* every game stored before it as it was.
C35_CreateGameFrame ==
    [][\A p \in PairInputs :
          create_game(p[1], p[2], TRUE)
          => /\ Cardinality(DOMAIN games') = Cardinality(DOMAIN games) + 1
             /\ \A k \in DOMAIN games : k \in DOMAIN games' /\ games'[k] = games[k]]_vars


\* C36: when a publish ends, it has attempted the delivery to every subscriber
\* that was active from its start to its end, whatever happened to the other
\* subscribers meanwhile. Nobody joins here, so a subscriber of the start that
\* is active at the end was active throughout.
C36_NoSubscriberSkipped ==
    [][\A i \in 1..Len(tasks) :
          ((\E sent \in BOOLEAN : Deliver(i, sent)) /\ Len(tasks') < Len(tasks))
          => \A w \in tasks[i].to \cap Range(active) :
                w \in tasks[i].got \cup Range(tasks[i].dead) \cup {tasks[i].cur}]_vars


\* C37: the winner stored for a completed game is the side that has more sets
\* with the strictly higher score among the game's stored sets, or "Split"
\* when neither side has more.
C37_WinnerMatchesScores ==
    \A k \in DOMAIN games : games[k].completed => games[k].winner = RuleWinner(games[k])

C37_Witness ==
    \E k \in DOMAIN games :
        /\ games[k].completed
        /\ games[k].team1 # games[k].team2
        /\ games[k].winner = games[k].team2
        /\ games[k].sets.set1.team1_score = 0
        /\ games[k].sets.set2.team2_score = 1
        /\ resp.op = "adjustScore"
        /\ resp.status = 400


\* C38: in the list returned by computeStandings the point differentials sum
\* to 0, the points for sum to the points against, and the set wins sum to
\* the set losses.
Total(body, field) == SumOf([i \in 1..Len(body) |-> body[i][field]], 1..Len(body))

C38_StandingsZeroSum ==
    LET body == calculate_standings(teams, games)
    IN /\ Total(body, "point_differential") = 0
       /\ Total(body, "points_for") = Total(body, "points_against")
       /\ Total(body, "set_wins") = Total(body, "set_losses")

C38_Witness ==
    /\ StandingsReturned
    /\ resp.body = calculate_standings(teams, games)
    /\ Len(resp.body) = 4
    /\ Total(resp.body, "points_for") = 313
    /\ Total(resp.body, "set_wins") = 8
    /\ \E i \in 1..4 : resp.body[i].team = "b" /\ resp.body[i].games_played = 4


\* C39: in the result of getStandings, games_played of a team is the number
\* of completed games between registered teams in which it is team1 or team2,
\* and its set_wins + set_losses is at most SETS_PER_GAME times games_played.
GamesWith(ts, gs, t) ==
    {k \in DOMAIN gs : /\ gs[k].completed
                       /\ gs[k].team1 \in DOMAIN ts
                       /\ gs[k].team2 \in DOMAIN ts
                       /\ t \in {gs[k].team1, gs[k].team2}}

C39_GamesPlayed ==
    [][get_standings
       => \A i \in 1..Len(resp'.body) :
             LET e == resp'.body[i]
             IN /\ e.games_played = Cardinality(GamesWith(reading.teams, games, e.team))
                /\ e.set_wins + e.set_losses <= SETS_PER_GAME * e.games_played]_vars


\* C40: the winner that the Streamlit scoring page saves for a game is the
\* game's stored team1, its stored team2 or "Split", and is the side of that
\* game that has more set wins.
C40_ScoringPageWinner ==
    [][score_complete("s1", TRUE)
       => \A k \in DOMAIN games' :
             (games'[k].completed /\ (k \notin DOMAIN games \/ ~games[k].completed))
             => /\ games'[k].winner \in {games'[k].team1, games'[k].team2, "Split"}
                /\ games'[k].winner = RuleWinner(games'[k])]_vars

====
